---- MODULE Spec2Model ----
(***************************************************************************)
(* Model of guessthenum.py: the ConsoleMenu navigator (open, Value.select) *)
(* and the Game round state machine (startGame, startRound, restart,      *)
(* endGame, quit).  The program is single threaded; it blocks only on     *)
(* input().  A state of the model is the Game object's fields, the place  *)
(* where the program is blocked (pc, menu, editAtr), the locals of the    *)
(* running startRound call (num, attemptsLeft, guess) and the outcome of   *)
(* the last menu choice and the last coercion of Value.select.  An input   *)
(* line is a sequence of its whitespace-separated tokens.                  *)
(*                                                                         *)
(* Spec is the program (Game().enter()); FairSpec is the program with a    *)
(* player who keeps guessing inside the range; NavSpec is a ConsoleMenu    *)
(* of a Value and a returning Option opened on its own, with the stack of  *)
(* its open() calls.                                                       *)
(***************************************************************************)
EXTENDS Integers, Sequences, FiniteSets, TLC

VARIABLES
    pc,             \* "menu" | "edit" | "roundStart" | "guess" | "roundEnd" | "exited" | "crashed"
    menu,           \* the ConsoleMenu whose open() reads the next choice
    editAtr,        \* atr of the Value whose select() reads the next line
    lives, remainingLives, highscore, score, range, attempts,   \* Game fields
    num,            \* startRound: the target
    attemptsLeft,   \* startRound: the local attempts
    entered,        \* ConsoleMenu.open: int(input()) of the last line read, or its ValueError
    coerced,        \* Value.select: the coercion of the last line read, or its exception
    guess,          \* startRound: int(input()) of the last line read, or its ValueError
    err,            \* the exception that ended the process, or the way it exited
    wrong,          \* history: wrong in-range guesses made in the current round
    lost,           \* history: rounds lost in the current game
    rounds,         \* history: rounds started in the current game
    outcome,        \* history: how the last finished round ended
    pre,            \* history: the settings and highscore when the current game started
    started,        \* history: rounds started since the process began
    active,         \* the calls of Game.startRound on the call stack
    nav,            \* navigator run: "none" | "start" | "choice" | "edit" | "returned" | "crashed"
    items,          \* navigator run: the choices of the menu under test
    frames,         \* navigator run: the local choosing of each active open() call, innermost last
    field,          \* navigator run: the attribute the menu's Value edits
    calls           \* navigator run: how often the Option's callback has run and returned

vars == <<pc, menu, editAtr, lives, remainingLives, highscore, score, range, attempts,
          num, attemptsLeft, entered, coerced, guess, err, wrong, lost, rounds, outcome, pre,
          started, active, nav, items, frames, field, calls>>

gameFields == <<lives, remainingLives, highscore, score, range, attempts>>
history == <<wrong, lost, rounds, outcome, pre, started>>
navigator == <<nav, items, frames, field, calls>>

----------------------------------------------------------------------------
(* Bounds of the input space and of the unbounded counter. *)

MaxNeg == 1
MaxInt == 2
MaxTokens == 2
MaxScore == 2
MaxRounds == 3
MaxDepth == 3
MaxCalls == 2

(* Game.__init__ defaults. *)
DefaultLives == 3
DefaultRange == <<1, 100>>
DefaultAttempts == 7

----------------------------------------------------------------------------
(* Input lines.  A token is an integer literal or some other word. *)

IntToken(n) == [isnum |-> TRUE, val |-> n]
Word == [isnum |-> FALSE, val |-> 0]
Tokens(hi) == {IntToken(n) : n \in (0 - MaxNeg)..hi} \cup {Word}
LinesOver(T) == UNION {[1..k -> T] : k \in 0..MaxTokens}
(* The lines entered at a value edit or a guess prompt, and at a menu. *)
Lines == LinesOver(Tokens(MaxInt))

(* int(s) of a line: the line, stripped, must be one integer literal;      *)
(* anything else (empty line, a word, several tokens) raises ValueError.   *)
int(l) ==
    IF Len(l) = 1 /\ l[1].isnum
    THEN [ok |-> TRUE, val |-> l[1].val, exc |-> "none"]
    ELSE [ok |-> FALSE, val |-> 0, exc |-> "ValueError"]

(* What int(input()) yields over a set of lines. *)
Parsed(L) == {int(l) : l \in L}

(* What int(input()) yields at a guess prompt. *)
GuessInputs == Parsed(Lines)

(* The local guess of startRound before its first assignment. *)
Unset == [ok |-> FALSE, val |-> 0, exc |-> "none"]

(* tuple(map(int, s.split())): every token must be an integer literal; the *)
(* result has as many elements as the line has tokens.                     *)
tuple_map_int(l) ==
    IF \A i \in 1..Len(l) : l[i].isnum
    THEN [ok |-> TRUE, vals |-> [i \in 1..Len(l) |-> l[i].val], exc |-> "none"]
    ELSE [ok |-> FALSE, vals |-> <<>>, exc |-> "ValueError"]

(* getattr(parent, atr).__class__ *)
atrType(atr) == IF atr = "range" THEN "tuple" ELSE "int"

(* The coercion Value.select applies to the line it read. *)
Coerce(atr, l) == IF atrType(atr) = "tuple" THEN tuple_map_int(l) ELSE int(l)

(* What the coercion yields over the lines entered at an edit of atr. *)
Coercions(atr) == {Coerce(atr, l) : l \in Lines}
IntCoercions == Coercions("lives")
TupleCoercions == Coercions("range")

(* The exceptions Value.select's try statement handles. *)
SelectCaught == {"TypeError"}

----------------------------------------------------------------------------
(* Menus.  An entry is an Option (func), a Value (atr) or a factory of a   *)
(* menu (callable).                                                        *)

Option(name, func) == [kind |-> "Option", name |-> name, ref |-> func]
Value(atr) == [kind |-> "Value", name |-> atr, ref |-> atr]
Factory(m) == [kind |-> "Factory", name |-> m, ref |-> m]
Submenu(m) == [kind |-> "ConsoleMenu", name |-> m, ref |-> m]

mainMenu == <<Option("start", "startGame"), Factory("settings"), Option("quit", "quit")>>
settingsMenu == <<Factory("main"), Value("lives"), Value("range"), Value("attempts")>>
(* Variant of restart: a third entry opens the main menu. *)
restart_withMainMenu ==
    <<Option("yes", "startGame"), Option("no", "endGame"), Factory("main")>>

(* Game.restart: the try-again menu. *)
restart == <<Option("yes", "startGame"), Option("no", "endGame")>>

choices(m) ==
    CASE m = "main" -> mainMenu
      [] m = "settings" -> settingsMenu
      [] m = "restart" -> restart
      [] m = "test" -> items

(* if callable(choice): choice = choice() *)
Resolve(entry) == IF entry.kind = "Factory" THEN Submenu(entry.ref) ELSE entry

(* The lines entered at a menu: the numbers up to one past the longest menu. *)
MaxChoice == Len(settingsMenu) + 1
MenuLines == LinesOver(Tokens(MaxChoice))
MenuInputs == Parsed(MenuLines)

----------------------------------------------------------------------------
Init ==
    /\ pc = "menu"
    /\ menu = "main"
    /\ editAtr = "none"
    /\ lives = DefaultLives
    /\ remainingLives = DefaultLives
    /\ highscore = 0
    /\ score = 0
    /\ range = DefaultRange
    /\ attempts = DefaultAttempts
    /\ num = 0
    /\ attemptsLeft = 0
    /\ entered = Unset
    /\ coerced = Unset
    /\ guess = Unset
    /\ err = "none"
    /\ wrong = 0
    /\ lost = 0
    /\ rounds = 0
    /\ outcome = "none"
    /\ pre = [highscore |-> 0, range |-> DefaultRange, attempts |-> DefaultAttempts,
              lives |-> DefaultLives]
    /\ started = 0
    /\ active = 0
    /\ nav = "none"
    /\ items = <<>>
    /\ frames = <<>>
    /\ field = 0
    /\ calls = 0

----------------------------------------------------------------------------
(* Process termination. *)

(* sys.exit(): SystemExit unwinds every frame and ends the process. *)
quit ==
    /\ pc' = "exited"
    /\ err' = "SystemExit"
    /\ active' = 0
    /\ UNCHANGED <<menu, editAtr, lives, remainingLives, highscore, range, attempts,
                   num, attemptsLeft, guess, history>>

(* An exception no handler catches: it unwinds every frame and ends the process. *)
Crash(e) ==
    /\ pc' = "crashed"
    /\ err' = e
    /\ active' = 0
    /\ UNCHANGED <<menu, editAtr, gameFields, num, attemptsLeft, guess, history>>

----------------------------------------------------------------------------
(* Game *)

(* Variant of UpdateHighscore: the assignment without its guard. *)
UpdateHighscore_unguarded(s, h) == s

(* Variant of UpdateHighscore: the highscore is never raised. *)
UpdateHighscore_never(s, h) == h

(* if self.score > self.highscore: self.highscore = self.score *)
UpdateHighscore(s, h) == IF s > h THEN s ELSE h

(* Variant of startGame: the score of the previous game is kept. *)
startGame_keepScore ==
    /\ score' = score
    /\ remainingLives' = lives
    /\ pc' = "roundStart"
    /\ active' = active + 1
    /\ lost' = 0
    /\ rounds' = 0
    /\ outcome' = "none"
    /\ pre' = [highscore |-> highscore, range |-> range, attempts |-> attempts,
               lives |-> lives]
    /\ UNCHANGED <<menu, editAtr, lives, highscore, range, attempts, num, attemptsLeft,
                   guess, err, wrong, started>>

(* Game.startGame: reset score and lives, then call startRound (one more    *)
(* call of it on the stack).                                                *)
startGame ==
    /\ score' = 0
    /\ remainingLives' = lives
    /\ pc' = "roundStart"
    /\ active' = active + 1
    /\ lost' = 0
    /\ rounds' = 0
    /\ outcome' = "none"
    /\ pre' = [highscore |-> highscore, range |-> range, attempts |-> attempts,
               lives |-> lives]
    /\ UNCHANGED <<menu, editAtr, lives, highscore, range, attempts, num, attemptsLeft,
                   guess, err, wrong, started>>

(* Game.endGame: print the summary, reset score, quit. *)
endGame ==
    /\ score' = 0
    /\ quit

(* Option.select: self.func() *)
Option_select(func) ==
    CASE func = "startGame" -> startGame
      [] func = "quit" -> quit /\ UNCHANGED score
      [] func = "endGame" -> endGame

(* Variant of WhileTest: one more pass of the loop. *)
WhileTest_offByOne(att) == att >= 0

(* The condition of startRound's while loop. *)
WhileTest(att) == att > 0

(* startRound's loop head with att attempts left: the next guess prompt,   *)
(* or the loop's else clause (the round is lost).                          *)
LoopHead(att) ==
    /\ attemptsLeft' = att
    /\ IF WhileTest(att)
       THEN /\ pc' = "guess"
            /\ UNCHANGED <<remainingLives, lost, outcome>>
       ELSE /\ pc' = "roundEnd"
            /\ remainingLives' = remainingLives - 1
            /\ lost' = lost + 1
            /\ outcome' = "lost"

(* random.randint unpacking self.range: the exception it raises, or "none". *)
(* randint takes exactly two arguments and needs a non-empty interval.     *)
randintError(r) ==
    IF Len(r) # 2 THEN "TypeError"
    ELSE IF r[1] > r[2] THEN "ValueError"
    ELSE "none"

(* The targets random.randint(a, b) can draw: a..b.  The draw is bounded   *)
(* by MaxTarget (never below a): with guesses bounded by MaxInt, the        *)
(* targets above every guess behave alike.                                  *)
MaxTarget == MaxInt + 1

Targets(r) ==
    LET hi == IF r[2] <= MaxTarget THEN r[2]
              ELSE IF r[1] > MaxTarget THEN r[1] ELSE MaxTarget
    IN r[1]..hi

(* Game.startRound up to its first prompt: draw the target, update the     *)
(* highscore, set the attempts budget.  At most MaxRounds rounds are       *)
(* started in a process.                                                   *)
startRound ==
    /\ pc = "roundStart"
    /\ started < MaxRounds
    /\ UNCHANGED navigator
    /\ IF randintError(range) # "none"
       THEN Crash(randintError(range))
       ELSE /\ \E n \in Targets(range) : num' = n
            /\ guess' = Unset
            /\ highscore' = UpdateHighscore(score, highscore)
            /\ wrong' = 0
            /\ rounds' = rounds + 1
            /\ started' = started + 1
            /\ LoopHead(attempts)
            /\ UNCHANGED <<menu, editAtr, lives, score, range, attempts, err, pre, active>>
    /\ UNCHANGED <<entered, coerced>>

(* Variant of Classify: the equality test is missing. *)
Classify_noEqual(g) ==
    IF g < range[1] \/ g > range[2] THEN "outOfRange"
    ELSE IF g <= num THEN "low"
    ELSE "high"

(* Variant of Classify: the range test is missing. *)
Classify_noRange(g) ==
    IF g = num THEN "correct"
    ELSE IF g < num THEN "low"
    ELSE "high"

(* The if/elif chain on a parsed guess g. *)
Classify(g) ==
    IF g = num THEN "correct"
    ELSE IF g < range[1] \/ g > range[2] THEN "outOfRange"
    ELSE IF g < num THEN "low"
    ELSE "high"

(* Variant of Decrement: a wrong guess costs no attempt. *)
Decrement_none(att) == att

(* attempts -= 1 *)
Decrement(att) == att - 1

(* One pass of startRound's loop body, g the outcome of int(input()). *)
Guess(g) ==
    /\ pc = "guess"
    /\ UNCHANGED <<navigator, active>>
    /\ guess' = g
    /\ UNCHANGED <<entered, coerced>>
    /\ IF ~g.ok
       THEN UNCHANGED <<pc, menu, editAtr, gameFields, num, attemptsLeft, err, history>>
       ELSE LET c == Classify(g.val) IN
            IF c = "correct"
            THEN /\ score < MaxScore
                 /\ score' = score + 1
                 /\ pc' = "roundEnd"
                 /\ outcome' = "won"
                 /\ UNCHANGED <<menu, editAtr, lives, remainingLives, highscore, range,
                                attempts, num, attemptsLeft, err, wrong, lost, rounds, pre,
                                started>>
            ELSE IF c = "outOfRange"
            THEN UNCHANGED <<pc, menu, editAtr, gameFields, num, attemptsLeft, err, history>>
            ELSE /\ wrong' = wrong + 1
                 /\ LoopHead(Decrement(attemptsLeft))
                 /\ UNCHANGED <<menu, editAtr, lives, highscore, score, range, attempts,
                                num, err, rounds, pre, started>>

(* Variant of roundEnd: the next round is started after the finished call  *)
(* of startRound has been left.                                             *)
roundEnd_iterate ==
    /\ pc = "roundEnd"
    /\ UNCHANGED navigator
    /\ highscore' = UpdateHighscore(score, highscore)
    /\ IF remainingLives <= 0
       THEN pc' = "menu" /\ menu' = "restart" /\ active' = active
       ELSE pc' = "roundStart" /\ menu' = menu /\ active' = (active - 1) + 1
    /\ UNCHANGED <<editAtr, lives, remainingLives, score, range, attempts, num,
                   attemptsLeft, entered, coerced, guess, err, history>>

(* Game.startRound after the loop: update the highscore, then the try-again *)
(* menu or the next round.  Both are calls made by the finished round's     *)
(* call of startRound, which stays on the stack; the next round is one more *)
(* call of it.                                                              *)
roundEnd ==
    /\ pc = "roundEnd"
    /\ UNCHANGED navigator
    /\ highscore' = UpdateHighscore(score, highscore)
    /\ IF remainingLives <= 0
       THEN pc' = "menu" /\ menu' = "restart" /\ active' = active
       ELSE pc' = "roundStart" /\ menu' = menu /\ active' = active + 1
    /\ UNCHANGED <<editAtr, lives, remainingLives, score, range, attempts, num,
                   attemptsLeft, entered, coerced, guess, err, history>>

----------------------------------------------------------------------------
(* ConsoleMenu *)

(* Variant of Value_select: an edit of lives also refills remainingLives. *)
Value_select_syncLives(r) ==
    /\ pc = "edit"
    /\ UNCHANGED navigator
    /\ coerced' = r
    /\ UNCHANGED <<entered, guess>>
    /\ IF r.ok
       THEN /\ lives' = IF editAtr = "lives" THEN r.val ELSE lives
            /\ remainingLives' = IF editAtr = "lives" THEN r.val ELSE remainingLives
            /\ range' = IF editAtr = "range" THEN r.vals ELSE range
            /\ attempts' = IF editAtr = "attempts" THEN r.val ELSE attempts
            /\ pc' = "menu"
            /\ editAtr' = "none"
            /\ UNCHANGED <<menu, highscore, score, num, attemptsLeft, err, history, active>>
       ELSE IF r.exc \in SelectCaught
       THEN UNCHANGED <<pc, menu, editAtr, gameFields, num, attemptsLeft, err, history,
                        active>>
       ELSE Crash(r.exc)

(* ConsoleMenu.Value.select: read a line, coerce it to the type of the      *)
(* field's current value, store it; r is the outcome of the coercion.       *)
Value_select(r) ==
    /\ pc = "edit"
    /\ UNCHANGED navigator
    /\ coerced' = r
    /\ UNCHANGED <<entered, guess>>
    /\ IF r.ok
       THEN /\ lives' = IF editAtr = "lives" THEN r.val ELSE lives
            /\ range' = IF editAtr = "range" THEN r.vals ELSE range
            /\ attempts' = IF editAtr = "attempts" THEN r.val ELSE attempts
            /\ pc' = "menu"
            /\ editAtr' = "none"
            /\ UNCHANGED <<menu, remainingLives, highscore, score, num, attemptsLeft,
                           err, history, active>>
       ELSE IF r.exc \in SelectCaught
       THEN UNCHANGED <<pc, menu, editAtr, gameFields, num, attemptsLeft, err, history,
                        active>>
       ELSE Crash(r.exc)

(* Variant of ValidChoice: the test for a negative index is missing. *)
ValidChoice_noLower(m, choice) == ~(choice > Len(choices(m)) - 1)

(* The index check of ConsoleMenu.open on the 0-based choice. *)
ValidChoice(m, choice) == ~(choice > Len(choices(m)) - 1 \/ choice < 0)

(* Variant of ChoiceIndex: the number entered is used as the index. *)
ChoiceIndex_noOffset(c) == c.val

(* choice = int(input()) - 1: the 0-based index of the number entered. *)
ChoiceIndex(c) == c.val - 1

(* s[i] of a Python list: i is 0-based, a negative i counts from the end. *)
PyIndex(s, i) == IF i < 0 THEN s[Len(s) + i + 1] ELSE s[i + 1]

(* The lines of the menu as open() prints them before it reads: line i is  *)
(* the number i and the name of entry i - 1, a factory called for its menu. *)
Rendered(m) == [i \in 1..Len(choices(m)) |-> Resolve(PyIndex(choices(m), i - 1)).name]

(* ConsoleMenu.open: read a choice, c the outcome of int(input()), and   *)
(* dispatch the entry by its kind.                                       *)
ConsoleMenu_open(c) ==
    /\ pc = "menu"
    /\ UNCHANGED navigator
    /\ entered' = c
    /\ coerced' = Unset
    /\ IF ~c.ok \/ ~ValidChoice(menu, ChoiceIndex(c))
       THEN UNCHANGED <<pc, menu, editAtr, gameFields, num, attemptsLeft, guess, err, history,
                        active>>
       ELSE LET choice == Resolve(PyIndex(choices(menu), ChoiceIndex(c))) IN
            CASE choice.kind = "ConsoleMenu" ->
                   /\ menu' = choice.ref
                   /\ UNCHANGED <<pc, editAtr, gameFields, num, attemptsLeft, guess, err, history,
                                   active>>
              [] choice.kind = "Value" ->
                   /\ pc' = "edit"
                   /\ editAtr' = choice.ref
                   /\ UNCHANGED <<menu, gameFields, num, attemptsLeft, guess, err, history,
                                   active>>
              [] choice.kind = "Option" -> Option_select(choice.ref)

----------------------------------------------------------------------------
(* What the coercion yields at the edit prompt of the field being edited. *)
EditInputs == IF atrType(editAtr) = "tuple" THEN TupleCoercions ELSE IntCoercions

Next ==
    \/ \E c \in MenuInputs : ConsoleMenu_open(c)
    \/ \E r \in EditInputs : Value_select(r)
    \/ startRound
    \/ \E g \in GuessInputs : Guess(g)
    \/ roundEnd

Spec == Init /\ [][Next]_vars

(* The player enters a guess that is an integer of the range. *)
InRangeGuess ==
    /\ pc = "guess"
    /\ \E g \in GuessInputs : g.ok /\ range[1] <= g.val /\ g.val <= range[2] /\ Guess(g)

(* The program with a player who, at a guess prompt, does not enter        *)
(* rejected lines for ever.  (A guess of the range ends the round or takes *)
(* an attempt, so it changes pc or attemptsLeft.)                          *)
FairSpec == Spec /\ WF_<<pc, attemptsLeft>>(InRangeGuess)

----------------------------------------------------------------------------
(* A run of the navigator on its own: a ConsoleMenu is built from a list    *)
(* of a Value of an int attribute and an Option whose callback returns, in  *)
(* either order, or from the empty list, and opened.  No Game runs.  The    *)
(* calls of open() on the menu are a stack: Value.select returns to the     *)
(* open() that called it, which calls self.open() again.                    *)

game == <<pc, menu, editAtr, gameFields, num, attemptsLeft, guess, err, history, active>>

(* The lists the menu under test is built from. *)
TestMenus ==
    { <<>>,
      <<Value("field"), Option("done", "callback")>>,
      <<Option("done", "callback"), Value("field")>> }

(* ConsoleMenu.__init__: the list is stored as it is given. *)
ConsoleMenu_init(list) == list

NavInit ==
    /\ pc = "none"
    /\ menu = "test"
    /\ editAtr = "none"
    /\ lives = DefaultLives
    /\ remainingLives = DefaultLives
    /\ highscore = 0
    /\ score = 0
    /\ range = DefaultRange
    /\ attempts = DefaultAttempts
    /\ num = 0
    /\ attemptsLeft = 0
    /\ entered = Unset
    /\ coerced = Unset
    /\ guess = Unset
    /\ err = "none"
    /\ wrong = 0
    /\ lost = 0
    /\ rounds = 0
    /\ outcome = "none"
    /\ pre = [highscore |-> 0, range |-> DefaultRange, attempts |-> DefaultAttempts,
              lives |-> DefaultLives]
    /\ started = 0
    /\ active = 0
    /\ nav = "start"
    /\ items = <<>>
    /\ frames = <<>>
    /\ field = 0
    /\ calls = 0

(* ConsoleMenu(name, list).open(): build the menu and enter open(), whose   *)
(* local choosing starts True.                                              *)
Navigator_start(list) ==
    /\ nav = "start"
    /\ items' = ConsoleMenu_init(list)
    /\ frames' = <<TRUE>>
    /\ nav' = "choice"
    /\ UNCHANGED <<game, entered, coerced, field, calls>>

(* The open() calls left after the innermost one has gone through its loop  *)
(* test: a call whose choosing is False returns to its caller, which is at   *)
(* its own loop test after self.open().                                      *)
RECURSIVE Unwind(_)
Unwind(fs) ==
    IF fs = <<>> THEN fs
    ELSE IF fs[Len(fs)] THEN fs
    ELSE Unwind(SubSeq(fs, 1, Len(fs) - 1))

(* ConsoleMenu.open of the menu under test, in its innermost call: read a   *)
(* choice, c the outcome of int(input()).  An Option sets choosing False and *)
(* runs the callback, which returns; a Value goes to its select().  The      *)
(* callback runs at most MaxCalls times.                                     *)
Navigator_open(c) ==
    /\ nav = "choice"
    /\ entered' = c
    /\ IF ~c.ok \/ ~ValidChoice("test", ChoiceIndex(c))
       THEN UNCHANGED <<nav, frames, calls>>
       ELSE LET choice == Resolve(PyIndex(choices("test"), ChoiceIndex(c))) IN
            CASE choice.kind = "Value" ->
                   /\ nav' = "edit"
                   /\ UNCHANGED <<frames, calls>>
              [] choice.kind = "Option" ->
                   /\ calls < MaxCalls
                   /\ calls' = calls + 1
                   /\ frames' = Unwind([frames EXCEPT ![Len(frames)] = FALSE])
                   /\ nav' = IF frames' = <<>> THEN "returned" ELSE "choice"
    /\ UNCHANGED <<game, coerced, items, field>>

(* Value.select of the menu's Value, then self.open() of the open() that    *)
(* called it: r is the outcome of the coercion to int.  Edits stop at        *)
(* MaxDepth active calls of open().                                          *)
Navigator_select(r) ==
    /\ nav = "edit"
    /\ coerced' = r
    /\ IF r.ok
       THEN /\ Len(frames) < MaxDepth
            /\ field' = r.val
            /\ frames' = Append(frames, TRUE)
            /\ nav' = "choice"
       ELSE IF r.exc \in SelectCaught
       THEN UNCHANGED <<nav, frames, field>>
       ELSE /\ nav' = "crashed"
            /\ UNCHANGED <<frames, field>>
    /\ UNCHANGED <<game, entered, items, calls>>

NavNext ==
    \/ \E list \in TestMenus : Navigator_start(list)
    \/ \E c \in MenuInputs : Navigator_open(c)
    \/ \E r \in IntCoercions : Navigator_select(r)

NavSpec == NavInit /\ [][NavNext]_vars

TypeOK ==
    /\ pc \in {"menu", "edit", "roundStart", "guess", "roundEnd", "exited", "crashed", "none"}
    /\ menu \in {"main", "settings", "restart", "test"}
    /\ editAtr \in {"none", "lives", "range", "attempts"}
    /\ lives \in Int /\ remainingLives \in Int /\ attempts \in Int
    /\ highscore \in 0..MaxScore /\ score \in 0..MaxScore
    /\ range \in Seq(Int)
    /\ entered \in [ok : BOOLEAN, val : Int, exc : {"none", "ValueError"}]
    /\ coerced.ok \in BOOLEAN
    /\ guess \in [ok : BOOLEAN, val : Int, exc : {"none", "ValueError"}]
    /\ started \in 0..MaxRounds
    /\ active \in 0..(MaxRounds + 1)
    /\ nav \in {"none", "start", "choice", "edit", "returned", "crashed"}
    /\ frames \in Seq(BOOLEAN) /\ Len(frames) <= MaxDepth
    /\ field \in Int
    /\ calls \in 0..MaxCalls

----------------------------------------------------------------------------
(* Properties of the round (Game.startRound). *)

Max0(n) == IF n > 0 THEN n ELSE 0

(* C1: a parsed guess equal to the target ends the round as a win: score   *)
(* grows by exactly 1, the attempts counter is not decremented and         *)
(* remainingLives is unchanged, whatever the range and the attempts left.  *)
C1_CorrectGuessWins ==
    [][(pc = "guess" /\ guess'.ok /\ guess'.val = num) =>
           /\ pc' = "roundEnd"
           /\ outcome' = "won"
           /\ score' = score + 1
           /\ attemptsLeft' = attemptsLeft
           /\ attemptsLeft >= 1
           /\ remainingLives' = remainingLives
           /\ remainingLives' = lives - lost']_vars

(* A round won after at least one wrong guess, under an edited range. *)
C1_Witness ==
    /\ pc = "roundEnd"
    /\ outcome = "won"
    /\ wrong >= 1
    /\ guess.ok /\ guess.val = num
    /\ range # DefaultRange

(* C2 as stated: a round is lost exactly when the number of wrong in-range *)
(* guesses of the round has reached Game.attempts.                         *)
C2_Original ==
    /\ (pc = "roundEnd" /\ outcome = "lost") => wrong = attempts
    /\ pc = "guess" => wrong < attempts

(* C2 amended: a round is lost exactly when the number of wrong in-range   *)
(* guesses of the round reaches max(Game.attempts, 0), no correct guess    *)
(* before (a budget of zero or less loses the round before any guess is    *)
(* read); the loss takes exactly one life and leaves score unchanged; every *)
(* round starts with the full Game.attempts.                               *)
C2_LossAfterAttempts ==
    [][/\ (pc # "roundEnd" /\ pc' = "roundEnd" /\ outcome' = "lost") =>
              /\ wrong' = Max0(attempts)
              /\ remainingLives' = remainingLives - 1
              /\ score' = score
       /\ pc' = "guess" =>
              /\ wrong' < attempts'
              /\ attemptsLeft' = attempts' - wrong'
       /\ (pc # "roundEnd" /\ pc' = "roundEnd" /\ outcome' = "won") =>
              /\ wrong' < attempts
              /\ remainingLives' = remainingLives
       /\ (pc = "roundStart" /\ pc' # "crashed") =>
              /\ attemptsLeft' = attempts
              /\ wrong' = 0]_vars

(* A round after the first, lost by its attempts-th wrong guess. *)
C2_Witness ==
    /\ pc = "roundEnd"
    /\ outcome = "lost"
    /\ rounds >= 2
    /\ attempts >= 1
    /\ wrong = attempts

(* An input the round rejects: not an integer, or outside the range. *)
Rejected(g) == ~g.ok \/ g.val < range[1] \/ g.val > range[2]

(* C3: in a round, a line that is not an integer and a guess outside the   *)
(* range leave the attempts counter, score, highscore, remainingLives and  *)
(* the target unchanged and lead back to the prompt of the same round.     *)
C3_RejectedInputIsFree ==
    [][(pc = "guess" /\ Rejected(guess')) =>
           /\ pc' = "guess"
           /\ UNCHANGED <<attemptsLeft, score, highscore, remainingLives, num>>
           /\ UNCHANGED <<wrong, rounds, lost>>]_vars

(* The prompt after an out-of-range guess, a wrong guess made before it. *)
C3_Witness ==
    /\ pc = "guess"
    /\ wrong >= 1
    /\ guess.ok
    /\ guess.val > range[2]
    /\ attemptsLeft = attempts - wrong

(* C4: highscore never decreases, whatever the step. *)
C4_HighscoreMonotone == [][highscore' >= highscore]_vars

(* A later game, its score reset, under the highscore of an earlier one. *)
C4_Witness ==
    /\ pc = "roundEnd"
    /\ menu = "restart"
    /\ highscore >= 1
    /\ score < highscore

(* C5: at the first prompt of the first round of a game, score = 0 and     *)
(* remainingLives = lives, and highscore, range, attempts and lives are    *)
(* what they were when the game was started.                               *)
C5_StartResetsSession ==
    (pc = "guess" /\ rounds = 1 /\ wrong = 0) =>
        /\ score = 0
        /\ remainingLives = lives
        /\ highscore = pre.highscore
        /\ range = pre.range
        /\ attempts = pre.attempts
        /\ lives = pre.lives

(* The first prompt of a game started from the try-again menu, after a     *)
(* game that scored.                                                       *)
C5_Witness ==
    /\ pc = "guess"
    /\ rounds = 1
    /\ wrong = 0
    /\ menu = "restart"
    /\ highscore >= 1
    /\ score = 0

----------------------------------------------------------------------------
(* Properties of lives and of the settings (Game.startRound, Value.select). *)

(* The try-again menu is open. *)
GameOver == pc = "menu" /\ menu = "restart"

(* C6: a game started with lives = L is over exactly when L of its rounds  *)
(* have been lost, and a won round is followed by another round, never by  *)
(* the try-again menu.                                                     *)
C6_LivesAreLosableRounds ==
    /\ GameOver => lost = lives
    /\ (pc = "roundEnd" /\ outcome = "won") => remainingLives > 0

(* C7: in every reachable state 0 <= remainingLives <= lives. *)
C7_RemainingLivesInRange == 0 <= remainingLives /\ remainingLives <= lives

(* C8: in every reachable state range is a pair (min, max), min <= max. *)
C8_RangeOrdered == Len(range) = 2 /\ range[1] <= range[2]

(* C9: in an edit of range, a line of two integers sets both bounds, and a *)
(* line whose number of tokens differs from the arity of the stored value  *)
(* is a coercion failure that leaves range unchanged.                      *)
C9_RangeEditArity ==
    [][(pc = "edit" /\ editAtr = "range" /\ coerced'.ok) =>
           /\ Len(coerced'.vals) = 2 => (pc' = "menu" /\ range' = coerced'.vals)
           /\ Len(coerced'.vals) # Len(range) => (pc' = "edit" /\ range' = range)]_vars

(* C10: in the edit flow, a line that cannot be coerced to the type of the *)
(* field is recovered locally: the flow stays at its prompt, the process   *)
(* does not terminate and no error leaves the flow.                        *)
C10_CoercionFailureRecovered ==
    [][(pc = "edit" /\ ~coerced'.ok) => (pc' = "edit" /\ err' = "none")]_vars

----------------------------------------------------------------------------
(* Properties of the navigator (ConsoleMenu.open, Value.select). *)

(* C11: in an edit of lives, range or attempts, a line the coercion to the *)
(* type of the field's current value rejects leaves the field as it was;   *)
(* the field changes only by a successful coercion, to the coerced value,  *)
(* and no other field of the Game changes during an edit.                  *)
C11_FailedEditKeepsFields ==
    [][pc = "edit" =>
           /\ ~coerced'.ok => UNCHANGED gameFields
           /\ lives' = IF coerced'.ok /\ editAtr = "lives" THEN coerced'.val ELSE lives
           /\ range' = IF coerced'.ok /\ editAtr = "range" THEN coerced'.vals ELSE range
           /\ attempts' = IF coerced'.ok /\ editAtr = "attempts" THEN coerced'.val
                           ELSE attempts
           /\ UNCHANGED <<remainingLives, highscore, score>>]_vars

(* A rejected line at an edit of lives, after range and lives were edited. *)
C11_Witness ==
    /\ pc = "crashed"
    /\ editAtr = "lives"
    /\ ~coerced.ok
    /\ coerced.exc = "ValueError"
    /\ lives # DefaultLives
    /\ range # DefaultRange

(* A line ConsoleMenu.open rejects in menu m: not an integer, or a number  *)
(* outside 1..N, N the number of entries of m.                             *)
BadChoice(m, c) == ~c.ok \/ c.val < 1 \/ c.val > Len(choices(m))

(* C12: in a menu, a line that is not an integer or a number outside 1..N  *)
(* changes no Game field and no menu, starts no callback, factory or edit  *)
(* (the program stays blocked at the choice of the same menu, and the      *)
(* locals of the round are untouched), so the next read is of that menu.   *)
C12_BadChoiceIsFree ==
    [][(pc = "menu" /\ BadChoice(menu, entered')) =>
           /\ pc' = "menu"
           /\ menu' = menu
           /\ editAtr' = editAtr
           /\ err' = "none"
           /\ UNCHANGED gameFields
           /\ UNCHANGED <<num, attemptsLeft, guess, history>>]_vars

(* The try-again menu after the number 3 was entered in it, a game played. *)
C12_Witness ==
    /\ pc = "menu"
    /\ menu = "restart"
    /\ entered.ok
    /\ entered.val = Len(restart) + 1
    /\ highscore >= 1

(* C13: in a menu of N entries every number i in 1..N dispatches entry     *)
(* i - 1 of choices, a factory called for its menu: a menu is opened, a    *)
(* Value goes to its edit, an Option has its callback run; the entry is    *)
(* the one printed with the number i.                                      *)
C13_ChoiceDispatchesItsEntry ==
    [][(pc = "menu" /\ ~BadChoice(menu, entered')) =>
           LET e == Resolve(choices(menu)[entered'.val]) IN
           /\ e.name = Rendered(menu)[entered'.val]
           /\ e.kind = "ConsoleMenu" => (pc' = "menu" /\ menu' = e.ref /\ editAtr' = editAtr)
           /\ e.kind = "Value" => (pc' = "edit" /\ editAtr' = e.ref /\ menu' = menu)
           /\ e.kind = "Option" =>
                  CASE e.ref = "startGame" ->
                         pc' = "roundStart" /\ score' = 0 /\ remainingLives' = lives
                    [] e.ref = "quit" ->
                         pc' = "exited" /\ err' = "SystemExit" /\ score' = score
                    [] e.ref = "endGame" ->
                         pc' = "exited" /\ err' = "SystemExit" /\ score' = 0]_vars

(* The edit of attempts, entered as number 4 of the settings menu after an *)
(* edit of lives.                                                          *)
C13_Witness ==
    /\ pc = "edit"
    /\ editAtr = "attempts"
    /\ entered.ok
    /\ entered.val = 4
    /\ lives # DefaultLives

----------------------------------------------------------------------------
(* Properties of the session (Game.startRound, Game.restart, Game.quit). *)

(* The main menu or one of the settings it leads to is open. *)
MainMenu == pc \in {"menu", "edit"} /\ menu \in {"main", "settings"}

(* A game has been started in this process. *)
GameStarted == pc \in {"roundStart", "guess", "roundEnd"} \/ menu = "restart"

(* C14 as stated: the try-again menu has a way back to the main menu; some *)
(* choice entered in it opens the main menu.                               *)
C14_Original ==
    GameOver => ENABLED (Next /\ pc' = "menu" /\ menu' \in {"main", "settings"})

(* C14 amended: the try-again menu leads to a new game (yes) or to the end *)
(* of the process (no) and nowhere else; once a game has been started the  *)
(* process plays rounds or shows the try-again menu until it ends: the     *)
(* main menu and the settings are never open again, and lives, range and   *)
(* attempts keep their values.                                             *)
C14_NoWayBackToMainMenu ==
    [][/\ GameOver => (GameOver' \/ pc' = "roundStart" \/ pc' = "exited")
       /\ GameStarted => (GameStarted' \/ pc' \in {"exited", "crashed"})
       /\ GameStarted => UNCHANGED <<lives, range, attempts>>]_vars

(* The try-again menu of a second game, the first one having scored. *)
C14_Witness ==
    /\ GameOver
    /\ pre.highscore >= 1
    /\ score <= highscore
    /\ entered.ok /\ entered.val = 1

(* The process has ended. *)
Terminated == pc \in {"exited", "crashed"}

(* C15: the process ends only by sys.exit(), called by Quit of the main     *)
(* menu or by No of the try-again menu: in every terminated state the last  *)
(* line read is that choice and no exception other than SystemExit ended    *)
(* the process.                                                             *)
C15_ExitOnlyByChoice ==
    Terminated =>
        /\ err = "SystemExit"
        /\ entered.ok
        /\ \/ menu = "main" /\ Resolve(choices("main")[entered.val]) = Option("quit", "quit")
           \/ menu = "restart" /\ Resolve(choices("restart")[entered.val]) = Option("no", "endGame")

----------------------------------------------------------------------------
(* Properties of the navigator on its own (ConsoleMenu.__init__, open). *)

(* C16: in a menu of a Value and an Option whose callback returns, once the *)
(* callback has run and returned the navigator reads no further choice:     *)
(* every call of open() on the menu has returned, whatever edits were made  *)
(* before the Option was chosen.                                            *)
C16_OptionStopsNavigator == calls >= 1 => (nav = "returned" /\ frames = <<>>)

(* C18: ConsoleMenu.__init__ yields no menu whose choices is empty, so      *)
(* open() never reads a choice in a menu of no entries.                     *)
C18_EmptyMenuRejected == nav = "choice" => Len(items) >= 1

----------------------------------------------------------------------------
(* Properties of the attempt loop and of the score (Game.startRound). *)

(* C17: in a round the attempts counter never increases and goes down by   *)
(* exactly 1 on each wrong guess of the range, and by nothing else; at a   *)
(* prompt it is between 1 and Game.attempts, the wrong guesses made being  *)
(* the difference; so with a player who keeps entering integers of the     *)
(* range every round ends, after at most Game.attempts of them.  (The      *)
(* rounds followed are those the score bound lets end by a win.)           *)
C17_AttemptLoopBounded ==
    /\ [][pc = "guess" =>
              /\ attemptsLeft' <= attemptsLeft
              /\ attemptsLeft' =
                     IF /\ guess'.ok
                        /\ range[1] <= guess'.val /\ guess'.val <= range[2]
                        /\ guess'.val # num
                     THEN attemptsLeft - 1
                     ELSE attemptsLeft
              /\ pc' \in {"guess", "roundEnd"}]_vars
    /\ [](pc = "guess" =>
              /\ 1 <= attemptsLeft /\ attemptsLeft <= attempts
              /\ wrong = attempts - attemptsLeft)
    /\ (pc = "guess" /\ score < MaxScore) ~> (pc = "roundEnd")

(* A round of the default seven attempts, lost by seven wrong guesses. *)
C17_Witness ==
    /\ pc = "roundEnd"
    /\ outcome = "lost"
    /\ attempts = DefaultAttempts
    /\ attemptsLeft = 0
    /\ wrong = DefaultAttempts

(* The program is blocked on input(): at a menu choice, at the prompt of a *)
(* value edit or at a guess prompt.                                        *)
Blocked == pc \in {"menu", "edit", "guess"}

(* C19: whenever the program waits for input, highscore >= score >= 0;     *)
(* score is above highscore only between the increment of score by a won   *)
(* round and the update of highscore that follows it in that round.        *)
C19_HighscoreCoversScore ==
    /\ Blocked => (highscore >= score /\ score >= 0)
    /\ score > highscore => (pc = "roundEnd" /\ outcome = "won" /\ score = highscore + 1)

(* The first prompt of the round after a won one, highscore caught up. *)
C19_Witness ==
    /\ pc = "guess"
    /\ wrong = 0
    /\ outcome = "won"
    /\ score >= 1
    /\ highscore = score

(* C20: no call of Game.startRound returns while the process runs: each    *)
(* finished round calls the next round or the try-again menu from inside   *)
(* its own call, so the calls of startRound on the stack are the rounds    *)
(* started since the process began (one more while a call is at its first  *)
(* statement), one more per round and never fewer, across games too; once  *)
(* a round has been played the process ends only by sys.exit().            *)
C20_RoundCallsNeverReturn ==
    /\ [][~Terminated' =>
              /\ active' >= active
              /\ active' - active = IF pc' = "roundStart" THEN 1 ELSE 0
              /\ started' - started = IF pc = "roundStart" THEN 1 ELSE 0]_vars
    /\ [](~Terminated => active = started + (IF pc = "roundStart" THEN 1 ELSE 0))
    /\ []((Terminated /\ started >= 1) => (pc = "exited" /\ err = "SystemExit"))

(* The first prompt of the first round of a second game: three calls of    *)
(* startRound are on the stack.                                            *)
C20_Witness ==
    /\ pc = "guess"
    /\ menu = "restart"
    /\ rounds = 1
    /\ started = 3
    /\ active = 3

====
